---- MODULE Spec2Model ----
(***************************************************************************)
(* Hierarchical timer wheel (ferris): wheel_sizes, CopyWheel, AllocWheel.  *)
(*                                                                         *)
(* Durations are whole, non-negative milliseconds.  Levels are numbered    *)
(* 1..n (the source's wheel_index + 1); slots keep the source's 0-based    *)
(* indexes, because the slot arithmetic is modular.  Both variants are     *)
(* driven by the same calls, so one run shows what each of them returns.   *)
(***************************************************************************)
EXTENDS Integers, Sequences, FiniteSets, TLC

VARIABLES
    input,        \* the resolutions vector handed to wheel_sizes / new
    resolutions,  \* that vector as the callee leaves it
    sizes,        \* the value wheel_sizes returned (<<>> before the call)
    copy,         \* the CopyWheel
    alloc,        \* the AllocWheel, driven by the same calls
    starts,       \* number of start() calls so far (names the Rc allocations)
    ticks,        \* number of expire() calls so far
    expired,      \* return values of the last call when it was expire()
    panicked,     \* an unwrap() in AllocWheel::expire failed
    hist,         \* per key: what the caller has done with it and seen of it
    trail,        \* the two finest cursors after each of the last expire() calls
    test          \* which driver runs: "none", "wheel_sizes" or a test's name

vars == <<input, resolutions, sizes, copy, alloc, starts, ticks, expired,
          panicked, hist, trail, test>>

----------------------------------------------------------------------------
(* lib.rs *)

\* enum Resolution, in declaration order (derive(Ord) orders by it)
Resolution == <<"Ms", "TenMs", "HundredMs", "Sec", "Min", "Hour">>

Ord(r) == CHOOSE i \in 1..Len(Resolution) : Resolution[i] = r

\* Vec::sort as wheel_sizes uses it: insertion of each element in order
RECURSIVE sort_insert(_, _)
sort_insert(v, r) ==
    IF v = <<>> THEN <<r>>
    ELSE IF Ord(r) < Ord(Head(v)) THEN <<r>> \o v
    ELSE <<Head(v)>> \o sort_insert(Tail(v), r)

RECURSIVE sort(_)
sort(v) == IF v = <<>> THEN <<>> ELSE sort_insert(sort(Tail(v)), Head(v))

\* Vec::dedup: removes consecutive repeated elements
RECURSIVE dedup(_)
dedup(v) ==
    IF Len(v) <= 1 THEN v
    ELSE IF v[1] = v[2] THEN dedup(Tail(v))
    ELSE <<v[1]>> \o dedup(Tail(v))

\* wheel_size without the look at the next resolution
wheel_size_terminal(rs, i) ==
    CASE rs[i] = "Ms" -> 1000
      [] rs[i] = "TenMs" -> 100
      [] rs[i] = "HundredMs" -> 10
      [] rs[i] = "Sec" -> 60
      [] rs[i] = "Min" -> 60
      [] rs[i] = "Hour" -> 24

\* the match in wheel_sizes, for position i of the normalised vector rs
wheel_size(rs, i) ==
    LET end == Len(rs) IN
    CASE rs[i] = "Ms" ->
            IF i = end THEN 1000
            ELSE CASE rs[i+1] = "TenMs" -> 10
                   [] rs[i+1] = "HundredMs" -> 100
                   [] OTHER -> 1000
      [] rs[i] = "TenMs" ->
            IF i = end THEN 100
            ELSE CASE rs[i+1] = "HundredMs" -> 10
                   [] OTHER -> 100
      [] rs[i] = "HundredMs" -> 10
      [] rs[i] = "Sec" -> 60
      [] rs[i] = "Min" -> 60
      [] rs[i] = "Hour" -> 24

\* wheel_sizes(&mut resolutions): the vector as left behind, and the sizes
wheel_sizes(v) ==
    LET rs == dedup(sort(v)) IN
    [resolutions |-> rs, sizes |-> [i \in 1..Len(rs) |-> wheel_size(rs, i)]]

\* InnerWheel::new(size): size empty slots
InnerWheel_new(size) == [j \in 0..(size - 1) |-> <<>>]

\* length of one unit of a resolution, in milliseconds (the divisors of insert_*)
UnitMs(r) ==
    CASE r = "Ms" -> 1
      [] r = "TenMs" -> 10
      [] r = "HundredMs" -> 100
      [] r = "Sec" -> 1000
      [] r = "Min" -> 60000
      [] r = "Hour" -> 3600000

\* iter().rposition(|r| r == resolution); 0 stands for None
rposition(rs, resolution) ==
    LET S == {i \in 1..Len(rs) : rs[i] = resolution} IN
    IF S = {} THEN 0 ELSE CHOOSE i \in S : \A j \in S : j <= i

\* wheel.slots.len()
slots_len(wheel) == Cardinality(DOMAIN wheel)

----------------------------------------------------------------------------
(* copy_wheel.rs *)

\* CopyWheel::new
copy_new(v) ==
    LET ws == wheel_sizes(v) IN
    [resolutions  |-> ws.resolutions,
     keys         |-> {},
     wheels       |-> [i \in 1..Len(ws.sizes) |-> InnerWheel_new(ws.sizes[i])],
     slot_indexes |-> [i \in 1..Len(ws.sizes) |-> 0]]

\* insert without the clamp to the number of slots
copy_insert_unclamped(self, key, time, resolution, slot) ==
    IF slot = 1 THEN [ok |-> FALSE, self |-> self]
    ELSE LET wheel_index == rposition(self.resolutions, resolution) IN
         IF wheel_index = 0 THEN [ok |-> FALSE, self |-> self]
         ELSE LET max_slot == slots_len(self.wheels[wheel_index])
                  slot_index == (self.slot_indexes[wheel_index] + slot) % max_slot
              IN [ok |-> TRUE,
                  self |-> [self EXCEPT !.wheels[wheel_index][slot_index] =
                                            Append(@, key)]]

\* CopyWheel::insert; the Result is [ok, self], Err hands the key back unchanged
copy_insert(self, key, time, resolution, slot) ==
    IF slot = 1 THEN [ok |-> FALSE, self |-> self]
    ELSE LET wheel_index == rposition(self.resolutions, resolution) IN
         IF wheel_index = 0 THEN [ok |-> FALSE, self |-> self]
         ELSE LET max_slot == slots_len(self.wheels[wheel_index])
                  slot2 == IF slot > max_slot THEN max_slot ELSE slot
                  slot_index == (self.slot_indexes[wheel_index] + slot2) % max_slot
              IN [ok |-> TRUE,
                  self |-> [self EXCEPT !.wheels[wheel_index][slot_index] =
                                            Append(@, key)]]

\* time.num_hours() as usize + 1, and so on down to milliseconds
copy_insert_hours(self, key, time) ==
    copy_insert(self, key, time, "Hour", (time \div 3600000) + 1)

copy_insert_minutes(self, key, time) ==
    copy_insert(self, key, time, "Min", (time \div 60000) + 1)

copy_insert_seconds(self, key, time) ==
    copy_insert(self, key, time, "Sec", (time \div 1000) + 1)

\* insert_hundred_ms rounding to the nearest 100 ms instead of truncating
copy_insert_hundred_ms_nearest(self, key, time) ==
    copy_insert(self, key, time, "HundredMs", ((time + 50) \div 100) + 1)

copy_insert_hundred_ms(self, key, time) ==
    copy_insert(self, key, time, "HundredMs", (time \div 100) + 1)

copy_insert_ten_ms(self, key, time) ==
    copy_insert(self, key, time, "TenMs", (time \div 10) + 1)

copy_insert_ms(self, key, time) ==
    copy_insert(self, key, time, "Ms", time + 1)

\* Result::or_else: the first Ok wins (an Err hands the wheel back untouched)
or_else(r, alt) == IF r.ok THEN r ELSE alt

\* CopyWheel::start: register the key, then the or_else chain, result dropped
copy_start(self, key, time) ==
    LET s0 == [self EXCEPT !.keys = @ \cup {key}] IN
    or_else(copy_insert_hours(s0, key, time),
    or_else(copy_insert_minutes(s0, key, time),
    or_else(copy_insert_seconds(s0, key, time),
    or_else(copy_insert_hundred_ms(s0, key, time),
    or_else(copy_insert_ten_ms(s0, key, time),
            copy_insert_ms(s0, key, time)))))).self

\* stop that also takes the copies of the key out of the slots
copy_stop_purge(self, key) ==
    [self EXCEPT !.keys = @ \ {key},
                 !.wheels = [i \in DOMAIN @ |->
                               [j \in DOMAIN @[i] |->
                                  SelectSeq(@[i][j], LAMBDA e : e # key)]]]

\* stop that leaves the registry alone
copy_stop_nothing(self, key) == self

\* CopyWheel::stop
copy_stop(self, key) == [self EXCEPT !.keys = @ \ {key}]

\* a drain that filters with keys.contains instead of keys.remove
RECURSIVE copy_drain_contains(_, _, _)
copy_drain_contains(entries, keys, out) ==
    IF entries = <<>> THEN [keys |-> keys, expired |-> out]
    ELSE LET key == Head(entries) IN
         IF key \in keys
         THEN copy_drain_contains(Tail(entries), keys, Append(out, key))
         ELSE copy_drain_contains(Tail(entries), keys, out)

\* entries.drain(..).filter(|key| keys.remove(key)), appended to expired
RECURSIVE copy_drain(_, _, _)
copy_drain(entries, keys, out) ==
    IF entries = <<>> THEN [keys |-> keys, expired |-> out]
    ELSE LET key == Head(entries) IN
         IF key \in keys
         THEN copy_drain(Tail(entries), keys \ {key}, Append(out, key))
         ELSE copy_drain(Tail(entries), keys, out)

\* the loop leaving slot 0 of every wheel undrained
RECURSIVE copy_expire_loop_skip_zero(_, _, _, _)
copy_expire_loop_skip_zero(self, i, keys, out) ==
    LET slot_index == (self.slot_indexes[i] + 1) % slots_len(self.wheels[i])
        d == IF slot_index = 0 THEN [keys |-> keys, expired |-> out]
             ELSE copy_drain(self.wheels[i][slot_index], keys, out)
        s1 == IF slot_index = 0 THEN [self EXCEPT !.slot_indexes[i] = slot_index]
              ELSE [self EXCEPT !.slot_indexes[i] = slot_index,
                                !.wheels[i][slot_index] = <<>>]
    IN IF slot_index # 0 \/ i = Len(self.wheels)
       THEN [self |-> s1, keys |-> d.keys, expired |-> d.expired]
       ELSE copy_expire_loop_skip_zero(s1, i + 1, d.keys, d.expired)

\* the loop that stops after the first wheel, whatever its cursor
copy_expire_loop_finest_only(self, i, keys, out) ==
    LET slot_index == (self.slot_indexes[i] + 1) % slots_len(self.wheels[i])
        d == copy_drain(self.wheels[i][slot_index], keys, out)
        s1 == [self EXCEPT !.slot_indexes[i] = slot_index,
                           !.wheels[i][slot_index] = <<>>]
    IN [self |-> s1, keys |-> d.keys, expired |-> d.expired]

\* the loop reading the slot it reaches without taking the entries out
RECURSIVE copy_expire_loop_no_drain(_, _, _, _)
copy_expire_loop_no_drain(self, i, keys, out) ==
    LET slot_index == (self.slot_indexes[i] + 1) % slots_len(self.wheels[i])
        d == copy_drain(self.wheels[i][slot_index], keys, out)
        s1 == [self EXCEPT !.slot_indexes[i] = slot_index]
    IN IF slot_index # 0 \/ i = Len(self.wheels)
       THEN [self |-> s1, keys |-> d.keys, expired |-> d.expired]
       ELSE copy_expire_loop_no_drain(s1, i + 1, d.keys, d.expired)

\* the loop draining the slot the cursor leaves instead of the one it reaches
RECURSIVE copy_expire_loop_old_slot(_, _, _, _)
copy_expire_loop_old_slot(self, i, keys, out) ==
    LET slot_index == (self.slot_indexes[i] + 1) % slots_len(self.wheels[i])
        d == copy_drain(self.wheels[i][self.slot_indexes[i]], keys, out)
        s1 == [self EXCEPT !.slot_indexes[i] = slot_index,
                           !.wheels[i][self.slot_indexes[i]] = <<>>]
    IN IF slot_index # 0 \/ i = Len(self.wheels)
       THEN [self |-> s1, keys |-> d.keys, expired |-> d.expired]
       ELSE copy_expire_loop_old_slot(s1, i + 1, d.keys, d.expired)

\* the for loop of CopyWheel::expire from wheel i on, with its break
RECURSIVE copy_expire_loop(_, _, _, _)
copy_expire_loop(self, i, keys, out) ==
    LET slot_index == (self.slot_indexes[i] + 1) % slots_len(self.wheels[i])
        d == copy_drain(self.wheels[i][slot_index], keys, out)
        s1 == [self EXCEPT !.slot_indexes[i] = slot_index,
                           !.wheels[i][slot_index] = <<>>]
    IN IF slot_index # 0 \/ i = Len(self.wheels)
       THEN [self |-> s1, keys |-> d.keys, expired |-> d.expired]
       ELSE copy_expire_loop(s1, i + 1, d.keys, d.expired)

\* CopyWheel::expire: keys swapped out, the loop, keys swapped back
copy_expire(self) ==
    LET r == copy_expire_loop([self EXCEPT !.keys = {}], 1, self.keys, <<>>) IN
    [self |-> [r.self EXCEPT !.keys = r.keys], expired |-> r.expired]

----------------------------------------------------------------------------
(* alloc_wheel.rs.  An Rc<T> is [key, rc]: the value and the allocation;  *)
(* a Weak<T> names the same allocation.  An allocation is alive while an  *)
(* Rc of it exists, and the registry is the only place that keeps one.    *)

\* AllocWheel::new
alloc_new(v) ==
    LET ws == wheel_sizes(v) IN
    [resolutions  |-> ws.resolutions,
     keys         |-> {},
     wheels       |-> [i \in 1..Len(ws.sizes) |-> InnerWheel_new(ws.sizes[i])],
     slot_indexes |-> [i \in 1..Len(ws.sizes) |-> 0]]

\* insert clamping to one slot short of the number of slots
alloc_insert_clamp_short(self, key, time, resolution, slot) ==
    IF slot = 1 THEN [ok |-> FALSE, self |-> self]
    ELSE LET wheel_index == rposition(self.resolutions, resolution) IN
         IF wheel_index = 0 THEN [ok |-> FALSE, self |-> self]
         ELSE LET max_slot == slots_len(self.wheels[wheel_index])
                  slot2 == IF slot >= max_slot THEN max_slot - 1 ELSE slot
                  slot_index == (self.slot_indexes[wheel_index] + slot2) % max_slot
              IN [ok |-> TRUE,
                  self |-> [self EXCEPT !.wheels[wheel_index][slot_index] =
                                            Append(@, key)]]

\* AllocWheel::insert
alloc_insert(self, key, time, resolution, slot) ==
    IF slot = 1 THEN [ok |-> FALSE, self |-> self]
    ELSE LET wheel_index == rposition(self.resolutions, resolution) IN
         IF wheel_index = 0 THEN [ok |-> FALSE, self |-> self]
         ELSE LET max_slot == slots_len(self.wheels[wheel_index])
                  slot2 == IF slot > max_slot THEN max_slot ELSE slot
                  slot_index == (self.slot_indexes[wheel_index] + slot2) % max_slot
              IN [ok |-> TRUE,
                  self |-> [self EXCEPT !.wheels[wheel_index][slot_index] =
                                            Append(@, key)]]

\* std::time::Duration: whole seconds, and the milliseconds of subsec_nanos()
as_secs(time) == time \div 1000

subsec_ms(time) == time % 1000

alloc_insert_hours(self, key, time) ==
    alloc_insert(self, key, time, "Hour", (as_secs(time) \div 3600) + 1)

alloc_insert_minutes(self, key, time) ==
    alloc_insert(self, key, time, "Min", (as_secs(time) \div 60) + 1)

alloc_insert_seconds(self, key, time) ==
    alloc_insert(self, key, time, "Sec", as_secs(time) + 1)

alloc_insert_hundred_ms(self, key, time) ==
    alloc_insert(self, key, time, "HundredMs", (subsec_ms(time) \div 100) + 1)

alloc_insert_ten_ms(self, key, time) ==
    alloc_insert(self, key, time, "TenMs", (subsec_ms(time) \div 10) + 1)

alloc_insert_ms(self, key, time) ==
    alloc_insert(self, key, time, "Ms", subsec_ms(time) + 1)

\* an insert that puts the new Rc in the place of an equal element
rc_set_replace(keys, rc) == {r \in keys : r.key # rc.key} \cup {rc}

\* HashSet<Rc<T>>::insert: hashes and compares the value; an equal element
\* already present stays and the new Rc is dropped
rc_set_insert(keys, rc) ==
    IF \E r \in keys : r.key = rc.key THEN keys ELSE keys \cup {rc}

\* HashSet<Rc<T>>::remove(&key): by value
rc_set_remove(keys, key) == {r \in keys : r.key # key}

\* Weak::upgrade succeeds while an Rc of the allocation exists
upgrade(keys, weak) == \E r \in keys : r.rc = weak.rc

\* AllocWheel::start; rc names the allocation Rc::new makes
alloc_start(self, key, time, rc) ==
    LET weak == [key |-> key, rc |-> rc]
        s0 == [self EXCEPT !.keys = rc_set_insert(@, [key |-> key, rc |-> rc])]
    IN
    or_else(alloc_insert_hours(s0, weak, time),
    or_else(alloc_insert_minutes(s0, weak, time),
    or_else(alloc_insert_seconds(s0, weak, time),
    or_else(alloc_insert_hundred_ms(s0, weak, time),
    or_else(alloc_insert_ten_ms(s0, weak, time),
            alloc_insert_ms(s0, weak, time)))))).self

\* AllocWheel::stop
alloc_stop(self, key) == [self EXCEPT !.keys = rc_set_remove(@, key)]

\* a drain that returns the keys of the live entries and leaves them registered
RECURSIVE alloc_drain_keep(_, _, _, _)
alloc_drain_keep(entries, keys, out, panic) ==
    IF entries = <<>> THEN [keys |-> keys, expired |-> out, panicked |-> panic]
    ELSE LET weak == Head(entries) IN
         IF upgrade(keys, weak)
         THEN alloc_drain_keep(Tail(entries), keys, Append(out, weak.key), panic)
         ELSE alloc_drain_keep(Tail(entries), keys, out, panic)

\* a drain that filters with keys.contains instead of keys.remove: the
\* registry still holds its Rc when try_unwrap is called
RECURSIVE alloc_drain_contains(_, _, _, _)
alloc_drain_contains(entries, keys, out, panic) ==
    IF entries = <<>> THEN [keys |-> keys, expired |-> out, panicked |-> panic]
    ELSE LET weak == Head(entries) IN
         IF ~upgrade(keys, weak)
         THEN alloc_drain_contains(Tail(entries), keys, out, panic)
         ELSE IF ~(\E r \in keys : r.key = weak.key)
         THEN alloc_drain_contains(Tail(entries), keys, out, panic)
         ELSE IF upgrade(keys, weak)
              THEN alloc_drain_contains(Tail(entries), keys, out, TRUE)
              ELSE alloc_drain_contains(Tail(entries), keys, Append(out, weak.key), panic)

\* entries.drain(..).filter_map(upgrade).filter(keys.remove).map(try_unwrap.unwrap)
\* try_unwrap fails when another Rc of the allocation is still in keys
RECURSIVE alloc_drain(_, _, _, _)
alloc_drain(entries, keys, out, panic) ==
    IF entries = <<>> THEN [keys |-> keys, expired |-> out, panicked |-> panic]
    ELSE LET weak == Head(entries) IN
         IF ~upgrade(keys, weak)
         THEN alloc_drain(Tail(entries), keys, out, panic)
         ELSE IF ~(\E r \in keys : r.key = weak.key)
         THEN alloc_drain(Tail(entries), keys, out, panic)
         ELSE LET keys2 == rc_set_remove(keys, weak.key) IN
              IF upgrade(keys2, weak)
              THEN alloc_drain(Tail(entries), keys2, out, TRUE)
              ELSE alloc_drain(Tail(entries), keys2, Append(out, weak.key), panic)

\* the loop with migration: the entries of the slot reached in a level above
\* the finest are moved to slot 1 of the next finer level instead of drained
RECURSIVE alloc_expire_loop_migrate(_, _, _, _, _)
alloc_expire_loop_migrate(self, i, keys, out, panic) ==
    LET slot_index == (self.slot_indexes[i] + 1) % slots_len(self.wheels[i])
        d == IF i = 1
             THEN alloc_drain(self.wheels[i][slot_index], keys, out, panic)
             ELSE [keys |-> keys, expired |-> out, panicked |-> panic]
        s0 == IF i = 1 THEN self
              ELSE [self EXCEPT !.wheels[i - 1][1] = @ \o self.wheels[i][slot_index]]
        s1 == [s0 EXCEPT !.slot_indexes[i] = slot_index,
                         !.wheels[i][slot_index] = <<>>]
    IN IF slot_index # 0 \/ i = Len(self.wheels)
       THEN [self |-> s1, keys |-> d.keys, expired |-> d.expired,
             panicked |-> d.panicked]
       ELSE alloc_expire_loop_migrate(s1, i + 1, d.keys, d.expired, d.panicked)

\* the loop without its break: every wheel advances in every call
RECURSIVE alloc_expire_loop_no_break(_, _, _, _, _)
alloc_expire_loop_no_break(self, i, keys, out, panic) ==
    LET slot_index == (self.slot_indexes[i] + 1) % slots_len(self.wheels[i])
        d == alloc_drain(self.wheels[i][slot_index], keys, out, panic)
        s1 == [self EXCEPT !.slot_indexes[i] = slot_index,
                           !.wheels[i][slot_index] = <<>>]
    IN IF i = Len(self.wheels)
       THEN [self |-> s1, keys |-> d.keys, expired |-> d.expired,
             panicked |-> d.panicked]
       ELSE alloc_expire_loop_no_break(s1, i + 1, d.keys, d.expired, d.panicked)

\* the for loop of AllocWheel::expire from wheel i on, with its break
RECURSIVE alloc_expire_loop(_, _, _, _, _)
alloc_expire_loop(self, i, keys, out, panic) ==
    LET slot_index == (self.slot_indexes[i] + 1) % slots_len(self.wheels[i])
        d == alloc_drain(self.wheels[i][slot_index], keys, out, panic)
        s1 == [self EXCEPT !.slot_indexes[i] = slot_index,
                           !.wheels[i][slot_index] = <<>>]
    IN IF slot_index # 0 \/ i = Len(self.wheels)
       THEN [self |-> s1, keys |-> d.keys, expired |-> d.expired,
             panicked |-> d.panicked]
       ELSE alloc_expire_loop(s1, i + 1, d.keys, d.expired, d.panicked)

\* AllocWheel::expire
alloc_expire(self) ==
    LET r == alloc_expire_loop([self EXCEPT !.keys = {}], 1, self.keys, <<>>, FALSE)
    IN [self |-> [r.self EXCEPT !.keys = r.keys], expired |-> r.expired,
        panicked |-> r.panicked]

----------------------------------------------------------------------------
(* The values of the tests (copy_wheel.rs / alloc_wheel.rs, tests::values) *)

test_resolutions == <<"Ms", "TenMs", "HundredMs", "Sec", "Min", "Hour">>

test_times == <<5, 35, 150, 5010, 310000, 18010000>>

test_keys == <<"a", "b", "c", "d", "e", "f">>

\* let total_ticks = 6*60000 - 1
total_ticks == 359999

Tests == {"start_and_expire", "start_and_stop_then_expire"}

----------------------------------------------------------------------------
(* Bounds and inputs of the free-running driver *)

MaxLen == 3          \* longest vector handed to wheel_sizes
MaxStarts == 2       \* start() calls of one run
MaxStartTick == 1    \* start() is called during the first ticks only
MaxTicks == 22       \* expire() calls of one run
MaxPlaceTick == 11   \* expire() calls before the start of a run that places one timer

AllKeys == {test_keys[i] : i \in 1..Len(test_keys)}

Keys == {"a", "b"}

\* the key of the runs in which expire() never stops being called
LiveKeys == {"a"}

\* the vectors the free-running wheels are constructed from
Inputs == { <<"HundredMs">>,
            <<"Sec", "Min", "TenMs", "Min", "Ms", "HundredMs", "Hour">> }

\* the durations tried: below the finest unit, inside the range, the span
\* of the coarsest level, and beyond it
Times(rs) ==
    IF rs[1] = "HundredMs" THEN {50, 1000, 2500} ELSE {0, 3, 15}

\* whole units tried of every resolution: one, and around every capacity
PlaceUnits == {1, 9, 10, 23, 24, 59, 60, 99, 100, 999, 1000}

\* the durations of the runs that place one timer, up to the span of Hour
PlaceTimes ==
    {0, 5} \cup
    UNION {{m * UnitMs(Resolution[i]) :
               m \in {n \in PlaceUnits :
                         n <= (24 * UnitMs("Hour")) \div UnitMs(Resolution[i])}} :
           i \in 1..Len(Resolution)}

\* all vectors of 1..MaxLen resolutions
Vectors ==
    UNION {[1..n -> {Resolution[i] : i \in 1..Len(Resolution)}] : n \in 1..MaxLen}

\* the configurations of the runs that place one timer: the ascending
\* vectors shorter than MaxLen
PlaceInputs ==
    {v \in Vectors : /\ Len(v) < MaxLen
                     /\ \A i \in 1..(Len(v) - 1) : Ord(v[i]) < Ord(v[i + 1])}

----------------------------------------------------------------------------
(* State machine *)

\* hist[key]: n start calls; the last one at tick `at` for `time` ms, made
\* while the key was registered (rearm; crearm / arearm: in the CopyWheel /
\* in the AllocWheel), placing entries in cplaced / aplaced; carms / aarms:
\* the entries of each start since the key came into the registry it is in
\* (pairs <<level, slot>>); stopped since; cfired / afired: the ages at which
\* expire() returned the key since; creturned / areturned: returns in all
NoCalls == [n |-> 0, at |-> 0, time |-> 0, rearm |-> FALSE,
            crearm |-> FALSE, arearm |-> FALSE, stopped |-> FALSE,
            carms |-> <<>>, aarms |-> <<>>,
            cplaced |-> {}, aplaced |-> {},
            cfired |-> <<>>, afired |-> <<>>, creturned |-> 0, areturned |-> 0]

\* the slots whose contents differ between two states of a wheel
Changed(before, after) ==
    {p \in UNION {{<<i, j>> : j \in DOMAIN before.wheels[i]} : i \in DOMAIN before.wheels} :
        after.wheels[p[1]][p[2]] # before.wheels[p[1]][p[2]]}

Elements(v) == {v[i] : i \in 1..Len(v)}

\* number of times key occurs in a returned vector
RECURSIVE Count(_, _)
Count(v, key) ==
    IF v = <<>> THEN 0
    ELSE (IF Head(v) = key THEN 1 ELSE 0) + Count(Tail(v), key)

\* v followed by n copies of x
RECURSIVE Repeat(_, _, _)
Repeat(v, x, n) == IF n = 0 THEN v ELSE Repeat(Append(v, x), x, n - 1)

\* the cursors of the two finest levels of both wheels
Finest(cs, as) ==
    [copy |-> SubSeq(cs, 1, IF Len(cs) < 2 THEN Len(cs) ELSE 2),
     alloc |-> SubSeq(as, 1, IF Len(as) < 2 THEN Len(as) ELSE 2)]

\* v followed by x, without its first element once it holds n elements
Slide(v, x, n) == Append(IF Len(v) >= n THEN Tail(v) ELSE v, x)

\* no wheel is constructed while wheel_sizes alone is exercised
NoWheel == [resolutions |-> <<>>, keys |-> {}, wheels |-> <<>>, slot_indexes |-> <<>>]

\* the state right after new(v), for both variants
Constructed(v, t) ==
    /\ input = v
    /\ resolutions = wheel_sizes(v).resolutions
    /\ sizes = wheel_sizes(v).sizes
    /\ copy = copy_new(v)
    /\ alloc = alloc_new(v)
    /\ starts = 0
    /\ ticks = 0
    /\ expired = [copy |-> <<>>, alloc |-> <<>>]
    /\ panicked = FALSE
    /\ hist = [k \in (IF t = "none" THEN Keys ELSE AllKeys) |-> NoCalls]
    /\ trail = <<Finest(copy_new(v).slot_indexes, alloc_new(v).slot_indexes)>>
    /\ test = t

Init == \E v \in Inputs : Constructed(v, "none")

InitTest == \E t \in Tests : Constructed(test_resolutions, t)

InitAll == Init \/ InitTest

InitPlace == \E v \in PlaceInputs : Constructed(v, "none")

InitSizes ==
    /\ input \in Vectors
    /\ resolutions = input
    /\ sizes = <<>>
    /\ copy = NoWheel
    /\ alloc = NoWheel
    /\ starts = 0
    /\ ticks = 0
    /\ expired = [copy |-> <<>>, alloc |-> <<>>]
    /\ panicked = FALSE
    /\ hist = [k \in Keys |-> NoCalls]
    /\ trail = <<>>
    /\ test = "wheel_sizes"

\* wheel_sizes(&mut resolutions)
WheelSizes ==
    /\ test = "wheel_sizes"
    /\ sizes = <<>>
    /\ resolutions' = wheel_sizes(resolutions).resolutions
    /\ sizes' = wheel_sizes(resolutions).sizes
    /\ UNCHANGED <<input, copy, alloc, starts, ticks, expired, panicked, hist,
                   trail, test>>

\* wheel.start(key, time) on both variants
StartOp(key, time) ==
    LET c == copy_start(copy, key, time)
        a == alloc_start(alloc, key, time, starts + 1)
        cplaced == Changed(copy, c)
        aplaced == Changed(alloc, a)
        cin == key \in copy.keys
        ain == \E r \in alloc.keys : r.key = key
    IN /\ copy' = c
       /\ alloc' = a
       /\ starts' = starts + 1
       /\ expired' = [copy |-> <<>>, alloc |-> <<>>]
       /\ hist' = [hist EXCEPT ![key] =
                      [@ EXCEPT !.n = @ + 1, !.at = ticks, !.time = time,
                                !.rearm = (cin \/ ain),
                                !.crearm = cin,
                                !.arearm = ain,
                                !.stopped = FALSE,
                                !.carms = Append(IF cin THEN @ ELSE <<>>, cplaced),
                                !.aarms = Append(IF ain THEN @ ELSE <<>>, aplaced),
                                !.cplaced = cplaced,
                                !.aplaced = aplaced,
                                !.cfired = <<>>, !.afired = <<>>]]
       /\ UNCHANGED <<input, resolutions, sizes, ticks, panicked, trail, test>>

\* wheel.stop(key) on both variants
StopOp(key) ==
    /\ copy' = copy_stop(copy, key)
    /\ alloc' = alloc_stop(alloc, key)
    /\ expired' = [copy |-> <<>>, alloc |-> <<>>]
    /\ hist' = [hist EXCEPT ![key] = [@ EXCEPT !.stopped = (hist[key].n > 0),
                                                !.carms = <<>>, !.aarms = <<>>]]
    /\ UNCHANGED <<input, resolutions, sizes, starts, ticks, panicked, trail, test>>

\* wheel.expire() on both variants
ExpireOp ==
    LET c == copy_expire(copy)
        a == alloc_expire(alloc)
    IN /\ copy' = c.self
       /\ alloc' = a.self
       /\ ticks' = ticks + 1
       /\ expired' = [copy |-> c.expired, alloc |-> a.expired]
       /\ panicked' = (panicked \/ a.panicked)
       /\ hist' = IF c.expired = <<>> /\ a.expired = <<>> THEN hist
                  ELSE [k \in DOMAIN hist |->
                     [hist[k] EXCEPT
                        !.cfired = Repeat(@, ticks + 1 - hist[k].at, Count(c.expired, k)),
                        !.afired = Repeat(@, ticks + 1 - hist[k].at, Count(a.expired, k)),
                        !.carms = IF Count(c.expired, k) > 0 THEN <<>> ELSE @,
                        !.aarms = IF Count(a.expired, k) > 0 THEN <<>> ELSE @,
                        !.creturned = @ + Count(c.expired, k),
                        !.areturned = @ + Count(a.expired, k)]]
       /\ trail' = Slide(trail, Finest(c.self.slot_indexes, a.self.slot_indexes),
                         sizes[1] + 1)
       /\ UNCHANGED <<input, resolutions, sizes, starts, test>>

\* the keys the last call returned, from either variant
Returned == Elements(expired.copy) \cup Elements(expired.alloc)

\* start() early in the run, or to start a key again as soon as it is returned
Start ==
    /\ test = "none"
    /\ starts < MaxStarts
    /\ \E key \in Keys, time \in Times(copy.resolutions) :
          /\ ticks <= MaxStartTick \/ key \in Returned
          /\ StartOp(key, time)

Stop ==
    /\ test = "none"
    /\ \E key \in Keys : StopOp(key)

Expire ==
    /\ test = "none"
    /\ ticks < MaxTicks
    /\ ExpireOp

\* one start(key, time), of any of PlaceTimes, after any number of calls of
\* expire() on the fresh wheel
StartAny ==
    /\ test = "none"
    /\ starts = 0
    /\ \E key \in LiveKeys, time \in PlaceTimes : StartOp(key, time)

ExpireBefore ==
    /\ test = "none"
    /\ starts = 0
    /\ ticks < MaxPlaceTick
    /\ ExpireOp

\* some slot of either wheel holds an entry
SlotsInUse ==
    \/ \E i \in DOMAIN copy.wheels : \E j \in DOMAIN copy.wheels[i] :
           copy.wheels[i][j] # <<>>
    \/ \E i \in DOMAIN alloc.wheels : \E j \in DOMAIN alloc.wheels[i] :
           alloc.wheels[i][j] # <<>>

\* the driver of one key: start(key, _) and stop(key) as in Start and Stop
StartLive ==
    /\ test = "none"
    /\ starts < MaxStarts
    /\ \E key \in LiveKeys, time \in Times(copy.resolutions) :
          /\ ticks <= MaxStartTick \/ key \in Returned
          /\ StartOp(key, time)

StopLive ==
    /\ test = "none"
    /\ \E key \in LiveKeys : StopOp(key)

\* the driver of one key with one more start() call
StartKey ==
    /\ test = "none"
    /\ starts <= MaxStarts
    /\ \E key \in LiveKeys, time \in Times(copy.resolutions) :
          /\ ticks <= MaxStartTick \/ key \in Returned
          /\ StartOp(key, time)

\* the driver that never starts a key that is in the registry of the
\* CopyWheel, and stops the keys that are in it
StartUnregistered ==
    /\ test = "none"
    /\ starts < MaxStarts
    /\ \E key \in Keys \ copy.keys, time \in Times(copy.resolutions) :
          /\ ticks <= MaxStartTick \/ key \in Returned
          /\ StartOp(key, time)

StopRegistered ==
    /\ test = "none"
    /\ \E key \in copy.keys : StopOp(key)

\* expire() kept being called: for MaxTicks calls, and on until no slot holds
\* an entry
ExpireLive ==
    /\ test = "none"
    /\ ticks < MaxTicks \/ SlotsInUse
    /\ ExpireOp

\* for (key, time) in keys.into_iter().zip(times) { wheel.start(key, time); }
TestStart ==
    /\ test \in Tests
    /\ starts < Len(test_keys)
    /\ StartOp(test_keys[starts + 1], test_times[starts + 1])

Stopped == {k \in DOMAIN hist : hist[k].stopped}

\* for key in keys { wheel.stop(key); }
TestStop ==
    /\ test = "start_and_stop_then_expire"
    /\ starts = Len(test_keys)
    /\ ticks = 0
    /\ Cardinality(Stopped) < Len(test_keys)
    /\ StopOp(test_keys[Cardinality(Stopped) + 1])

\* the expire() loops of verify_expire / verify_expire_contains_only_weak_refs,
\* continued by the one call that returns "e"
TestExpire ==
    /\ test \in Tests
    /\ starts = Len(test_keys)
    /\ test = "start_and_stop_then_expire" => Stopped = AllKeys
    /\ ticks <= total_ticks
    /\ ExpireOp

Next == Start \/ Stop \/ Expire

NextTest == TestStart \/ TestStop \/ TestExpire

NextAll == Start \/ Stop \/ Expire \/ TestStart \/ TestStop \/ TestExpire

NextSizes == WheelSizes

NextPlace == StartAny \/ ExpireBefore

NextKey == StartKey \/ StopLive \/ Expire

NextFresh == StartUnregistered \/ StopRegistered \/ Expire

\* the free runs of one key together with the two tests
NextOne ==
    StartLive \/ StopLive \/ Expire \/ TestStart \/ TestStop \/ TestExpire

NextLive == StartLive \/ StopLive \/ ExpireLive

Spec == Init /\ [][Next]_vars

SpecTest == InitTest /\ [][NextTest]_vars

SpecAll == InitAll /\ [][NextAll]_vars

SpecSizes == InitSizes /\ [][NextSizes]_vars

SpecPlace == InitPlace /\ [][NextPlace]_vars

SpecKey == Init /\ [][NextKey]_vars

SpecFresh == Init /\ [][NextFresh]_vars

SpecOne == InitAll /\ [][NextOne]_vars

\* a call of expire() seen by its count alone.  ExpireOp has no guard and
\* always adds one to ticks, and start() and stop() leave ticks alone, so a
\* step of NextLive is an ExpireLive step exactly when it is an ExpireCalled
\* step, and ExpireLive is enabled exactly when ExpireCalled is:
\* WF_ticks(ExpireCalled) is WF_vars(ExpireLive) for the behaviours of
\* NextLive (ExpireCalledIsExpireLive below), without the evaluation of
\* ENABLED over the body of expire().
ExpireCalled ==
    /\ test = "none"
    /\ ticks < MaxTicks \/ SlotsInUse
    /\ ticks' = ticks + 1

\* the driver never stops calling expire() while a call is due
SpecLive == Init /\ [][NextLive]_vars /\ WF_ticks(ExpireCalled)

\* the steps that count a call are the steps of ExpireLive
ExpireCalledIsExpireLive == [][ExpireCalled <=> ExpireLive]_vars

----------------------------------------------------------------------------
(* Vocabulary of the claims *)

Levels == 1..Len(copy.resolutions)

Coarsest == Len(copy.resolutions)

\* capacity of level i: the size the wheel was constructed with
Capacity(i) == sizes[i]

\* expire() calls per tick of level i: the capacities of the finer levels multiplied
RECURSIVE TicksPer(_)
TicksPer(i) == IF i = 1 THEN 1 ELSE Capacity(i - 1) * TicksPer(i - 1)

\* span of the coarsest active level, in milliseconds
Span == Capacity(Coarsest) * UnitMs(copy.resolutions[Coarsest])

\* one unit of the finest active level, in milliseconds
FinestUnit == UnitMs(copy.resolutions[1])

\* expire() calls since the last start of key
Age(key) == ticks - hist[key].at

\* the next resolution after position i of a normalised vector, "" at the end
NextActive(rs, i) == IF i = Len(rs) THEN "" ELSE rs[i + 1]

\* the size table of the specification
TableSize(r, next) ==
    CASE r = "Ms" -> (IF next = "TenMs" THEN 10 ELSE IF next = "HundredMs" THEN 100 ELSE 1000)
      [] r = "TenMs" -> (IF next = "HundredMs" THEN 10 ELSE 100)
      [] r = "HundredMs" -> 10
      [] r = "Sec" -> 60
      [] r = "Min" -> 60
      [] r = "Hour" -> 24

----------------------------------------------------------------------------
(* C9, C10: wheel_sizes (SpecSizes) *)

\* C9: after wheel_sizes the vector holds the same resolutions strictly
\* ascending (so without duplicates), and there is one size per remaining
\* level, the one the table gives for the level and the next active level.
C9_SizesFollowTable ==
    sizes # <<>> =>
        /\ Elements(resolutions) = Elements(input)
        /\ \A i \in 1..(Len(resolutions) - 1) :
               Ord(resolutions[i]) < Ord(resolutions[i + 1])
        /\ Len(sizes) = Len(resolutions)
        /\ \A i \in 1..Len(resolutions) :
               sizes[i] = TableSize(resolutions[i], NextActive(resolutions, i))

\* an unsorted vector with a duplicate has been normalised and sized
C9_Witness ==
    /\ input = <<"Sec", "Ms", "Sec">>
    /\ resolutions = <<"Ms", "Sec">>
    /\ sizes = <<1000, 60>>

\* C10 as claimed: every level but the coarsest spans exactly one unit of the
\* next coarser active level.
C10_SizesTile ==
    sizes # <<>> =>
        \A i \in 1..(Len(resolutions) - 1) :
            sizes[i] * UnitMs(resolutions[i]) = UnitMs(resolutions[i + 1])

----------------------------------------------------------------------------
(* C1..C8: the wheels *)

\* the coarsest active level in which time is at least one whole unit, 0 if none
ChosenLevel(time) ==
    LET S == {i \in Levels : time \div UnitMs(copy.resolutions[i]) >= 1} IN
    IF S = {} THEN 0 ELSE CHOOSE i \in S : \A j \in S : j <= i

\* time rounded up to a whole number of units of its level, in finest-level
\* ticks: to the unit after the last whole one, or to the least unit not below it
DueNext(time) ==
    LET u == UnitMs(copy.resolutions[ChosenLevel(time)]) IN
    (((time \div u) + 1) * u) \div FinestUnit

DueCeil(time) ==
    LET u == UnitMs(copy.resolutions[ChosenLevel(time)]) IN
    (((time + u - 1) \div u) * u) \div FinestUnit

\* returned once, by the call that brought the age to due, and by no other
FiredAt(fired, age, due) == fired = (IF age >= due THEN <<due>> ELSE <<>>)

\* C1 as claimed, for keys started once and never stopped: a key started
\* with a duration inside the representable range is returned by exactly one
\* expire() call, the one at which the calls since the start reach the
\* duration rounded up to a full unit of its level (under either reading of
\* the rounding), in both variants.
C1_ReturnedOnceWhenDue ==
    \A k \in DOMAIN hist :
        LET h == hist[k] IN
        (h.n = 1 /\ ~h.stopped /\ h.time >= FinestUnit /\ h.time <= Span) =>
            /\ \/ FiredAt(h.cfired, Age(k), DueNext(h.time))
               \/ FiredAt(h.cfired, Age(k), DueCeil(h.time))
            /\ \/ FiredAt(h.afired, Age(k), DueNext(h.time))
               \/ FiredAt(h.afired, Age(k), DueCeil(h.time))

\* C2: a key stopped since its last start is in no value expire() returns, in
\* either variant; in the test that stops all six keys every call of the
\* drive returns an empty vector.
C2_StoppedNeverReturned ==
    /\ \A k \in DOMAIN hist :
           hist[k].stopped =>
               /\ k \notin Elements(expired.copy)
               /\ k \notin Elements(expired.alloc)
    /\ test = "start_and_stop_then_expire" =>
           expired = [copy |-> <<>>, alloc |-> <<>>]

\* the six keys were stopped and expire() was driven past the slots in which
\* the copies and weak references of a, b and c sat
C2_Witness ==
    /\ test = "start_and_stop_then_expire"
    /\ Stopped = AllKeys
    /\ ticks = 200
    /\ \A k \in AllKeys : hist[k].creturned = 0 /\ hist[k].areturned = 0
    /\ copy.wheels[3][2] = <<>> /\ alloc.wheels[3][2] = <<>>

\* the call index s * (capacities of the finer levels) - 1 of C3, as a number
\* of calls, for the place p = <<level, slot>>
CallsToSlot(p) == p[2] * TicksPer(p[1])

\* the same with slot 0 standing for a full rotation
CallsToSlotWrapped(p) ==
    (IF p[2] = 0 THEN Capacity(p[1]) ELSE p[2]) * TicksPer(p[1])

\* let expected_ticks = [5, 4 * 10 - 1, 2 * 100 - 1, 6 * 1000 - 1, 6 * 60000 - 1]
expected_ticks == <<5, 39, 199, 5999, 359999>>

\* C3 as claimed: on a fresh wheel a timer placed in slot s of level i is
\* returned by the call with index s * (capacities of the finer levels) - 1
\* and by no other call.
C3_FreshWheelCallIndex ==
    \A k \in DOMAIN hist :
        LET h == hist[k] IN
        (h.n = 1 /\ h.at = 0 /\ ~h.stopped) =>
            /\ \A p \in h.cplaced :
                   h.cfired = (IF CallsToSlot(p) >= 1 /\ ticks >= CallsToSlot(p)
                               THEN <<CallsToSlot(p)>> ELSE <<>>)
            /\ \A p \in h.aplaced :
                   h.afired = (IF CallsToSlot(p) >= 1 /\ ticks >= CallsToSlot(p)
                               THEN <<CallsToSlot(p)>> ELSE <<>>)

\* C3 amended: the same, with a timer placed in slot 0 returned by the call
\* that ends the level's first full rotation; in the tests' configuration the
\* keys a..e are returned by the calls 5, 39, 199, 5999 and 359999 and the
\* calls between return nothing.
C3_FreshWheelCallIndexWrapped ==
    /\ \A k \in DOMAIN hist :
           LET h == hist[k] IN
           (h.n = 1 /\ h.at = 0 /\ ~h.stopped) =>
               /\ \A p \in h.cplaced :
                      FiredAt(h.cfired, ticks, CallsToSlotWrapped(p))
               /\ \A p \in h.aplaced :
                      FiredAt(h.afired, ticks, CallsToSlotWrapped(p))
    /\ (test = "start_and_expire" /\ starts = Len(test_keys)) =>
           /\ \A j \in 1..Len(expected_ticks) :
                  /\ FiredAt(hist[test_keys[j]].cfired, ticks, expected_ticks[j] + 1)
                  /\ FiredAt(hist[test_keys[j]].afired, ticks, expected_ticks[j] + 1)
           /\ (ticks - 1) \notin Elements(expected_ticks) =>
                  expired = [copy |-> <<>>, alloc |-> <<>>]

\* call 39 of the test has returned "b", from slot 4 of the TenMs level
C3_Witness ==
    /\ test = "start_and_expire"
    /\ hist["b"].cplaced = {<<2, 4>>} /\ hist["b"].aplaced = {<<2, 4>>}
    /\ expired = [copy |-> <<"b">>, alloc |-> <<"b">>]
    /\ ticks = 40

\* what the call with 0-based index i returns according to C4
ClaimedAt(i) ==
    CASE i = 5 -> <<"a">>
      [] i = 39 -> <<"b">>
      [] i = 249 -> <<"c">>
      [] i = 5999 -> <<"d">>
      [] i = 359999 -> <<"e">>
      [] OTHER -> <<>>

\* the same with "c" at index 199
AmendedAt(i) ==
    CASE i = 5 -> <<"a">>
      [] i = 39 -> <<"b">>
      [] i = 199 -> <<"c">>
      [] i = 5999 -> <<"d">>
      [] i = 359999 -> <<"e">>
      [] OTHER -> <<>>

\* C4 as claimed: with the six keys of the test armed, the calls 5, 39, 249,
\* 5999 and 359999 return a, b, c, d, e and every other call returns nothing.
C4_TestSchedule ==
    (test = "start_and_expire" /\ ticks >= 1) =>
        /\ expired.copy = ClaimedAt(ticks - 1)
        /\ expired.alloc = ClaimedAt(ticks - 1)

\* C4 amended: "c" is returned by call 199, not 249.
C4_TestScheduleAmended ==
    (test = "start_and_expire" /\ ticks >= 1) =>
        /\ expired.copy = AmendedAt(ticks - 1)
        /\ expired.alloc = AmendedAt(ticks - 1)

\* call 199 has just returned "c"
C4_Witness ==
    /\ test = "start_and_expire"
    /\ ticks = 200
    /\ expired = [copy |-> <<"c">>, alloc |-> <<"c">>]

\* C5: a key is never returned more often than it was started, never twice
\* by one call, and never twice without a start between, in either variant.
C5_OncePerArming ==
    \A k \in DOMAIN hist :
        /\ hist[k].creturned <= hist[k].n
        /\ hist[k].areturned <= hist[k].n
        /\ Count(expired.copy, k) <= 1
        /\ Count(expired.alloc, k) <= 1
        /\ Len(hist[k].cfired) <= 1
        /\ Len(hist[k].afired) <= 1

\* a key started again when it was returned has been returned a second time
C5_Witness ==
    \E k \in Keys : hist[k].n = 2 /\ hist[k].creturned = 2 /\ hist[k].areturned = 2

\* the calls of a run in which a level's cursor comes back to where it was
FullRotation(i) == ((Capacity(i) - 1) * TicksPer(i) + 1)..(Capacity(i) * TicksPer(i))

\* C6 as claimed, for keys started once: a duration beyond the span of the
\* coarsest level is placed in that level, clamped, in both variants, and the
\* key is returned once, when that level has made a full rotation.
C6_LongTimerClamped ==
    \A k \in DOMAIN hist :
        LET h == hist[k] IN
        (h.n = 1 /\ h.time > Span) =>
            /\ h.cplaced # {} /\ h.aplaced # {}
            /\ \A p \in h.cplaced \cup h.aplaced : p[1] = Coarsest
            /\ ~h.stopped =>
                 /\ \A j \in 1..Len(h.cfired) : h.cfired[j] \in FullRotation(Coarsest)
                 /\ \A j \in 1..Len(h.afired) : h.afired[j] \in FullRotation(Coarsest)
                 /\ Age(k) >= Capacity(Coarsest) * TicksPer(Coarsest) =>
                        Len(h.cfired) = 1 /\ Len(h.afired) = 1

\* C7 as claimed, for keys that were not registered when started: a duration
\* below one unit of the finest level leaves the key registered and in no
\* slot, and until it is stopped no expire() call returns or unregisters it.
C7_ShortTimerOrphaned ==
    \A k \in DOMAIN hist :
        LET h == hist[k] IN
        (h.n >= 1 /\ ~h.rearm /\ h.time < FinestUnit /\ ~h.stopped) =>
            /\ h.cplaced = {} /\ h.aplaced = {}
            /\ h.cfired = <<>> /\ h.afired = <<>>
            /\ k \in copy.keys
            /\ \E r \in alloc.keys : r.key = k

\* C8 as claimed, for runs that start no key twice: every expire() call
\* returns the same set of keys in both variants.
C8_VariantsAgree ==
    (\A k \in DOMAIN hist : hist[k].n <= 1) =>
        Elements(expired.copy) = Elements(expired.alloc)

----------------------------------------------------------------------------
(* C11..C20: the operations one by one *)

\* the values in the registry of the AllocWheel
alloc_registered == {r.key : r \in alloc.keys}

\* the slots of a wheel that hold an entry for key
Holding(wheels, key) ==
    {p \in UNION {{<<i, j>> : j \in DOMAIN wheels[i]} : i \in DOMAIN wheels} :
        key \in Elements(wheels[p[1]][p[2]])}

\* the keys of the entries of an AllocWheel slot
RECURSIVE WeakKeys(_)
WeakKeys(entries) ==
    IF entries = <<>> THEN <<>> ELSE <<Head(entries).key>> \o WeakKeys(Tail(entries))

\* C11: in both variants stop(key) takes key out of the registry and changes
\* nothing else: slots and cursors stay as they are, a key that is not
\* registered leaves the wheel as it was, and nothing panics.
C11_StopOnlyUnregisters ==
    [][\A key \in DOMAIN hist :
          StopOp(key) =>
              /\ copy'.wheels = copy.wheels
              /\ copy'.slot_indexes = copy.slot_indexes
              /\ copy'.resolutions = copy.resolutions
              /\ copy'.keys = copy.keys \ {key}
              /\ alloc'.wheels = alloc.wheels
              /\ alloc'.slot_indexes = alloc.slot_indexes
              /\ alloc'.resolutions = alloc.resolutions
              /\ alloc'.keys \subseteq alloc.keys
              /\ {r.key : r \in alloc'.keys} = alloc_registered \ {key}
              /\ key \notin copy.keys => copy' = copy
              /\ key \notin alloc_registered => alloc' = alloc
              /\ panicked' = panicked]_vars

\* one key was stopped while its entries sat in the slots, where they still
\* are, and another was stopped after expire() had returned it
C11_Witness ==
    \E k1, k2 \in Keys :
        /\ hist[k1].stopped /\ hist[k1].n = 1
        /\ hist[k1].cplaced # {} /\ hist[k1].cplaced = Holding(copy.wheels, k1)
        /\ hist[k1].aplaced # {}
        /\ k1 \notin copy.keys /\ k1 \notin alloc_registered
        /\ hist[k2].stopped /\ hist[k2].n = 1
        /\ hist[k2].creturned = 1 /\ hist[k2].areturned = 1

\* expire() calls in which the cursor of level i comes back to where it was
Rotation(i) == Capacity(i) * TicksPer(i)

\* returned by a call no later than one rotation of each level in placed
ReturnedInTime(fired, age, placed) ==
    \A p \in placed :
        /\ \A j \in 1..Len(fired) : fired[j] <= Rotation(p[1])
        /\ age >= Rotation(p[1]) => fired # <<>>

\* C12 as claimed: a start that has placed an entry and is not followed by a
\* stop of the key is followed by an expire() call returning the key, within
\* one rotation of the entry's level, in both variants.
C12_PlacedIsReturned ==
    /\ [](\A k \in LiveKeys :
             (hist[k].n >= 1 /\ ~hist[k].stopped) =>
                 /\ ReturnedInTime(hist[k].cfired, Age(k), hist[k].cplaced)
                 /\ ReturnedInTime(hist[k].afired, Age(k), hist[k].aplaced))
    /\ \A k \in LiveKeys :
           /\ (hist[k].cplaced # {} /\ ~hist[k].stopped)
                  ~> (hist[k].cfired # <<>> \/ hist[k].stopped)
           /\ (hist[k].aplaced # {} /\ ~hist[k].stopped)
                  ~> (hist[k].afired # <<>> \/ hist[k].stopped)

\* C12 amended: the same, in the AllocWheel for the starts of keys that were
\* not in its registry.
C12_PlacedIsReturnedUnlessRearmed ==
    /\ [](\A k \in LiveKeys :
             (hist[k].n >= 1 /\ ~hist[k].stopped) =>
                 /\ ReturnedInTime(hist[k].cfired, Age(k), hist[k].cplaced)
                 /\ ~hist[k].arearm =>
                        ReturnedInTime(hist[k].afired, Age(k), hist[k].aplaced))
    /\ \A k \in LiveKeys :
           /\ (hist[k].cplaced # {} /\ ~hist[k].stopped)
                  ~> (hist[k].cfired # <<>> \/ hist[k].stopped)
           /\ (hist[k].aplaced # {} /\ ~hist[k].arearm /\ ~hist[k].stopped)
                  ~> (hist[k].afired # <<>> \/ hist[k].stopped)

\* a key started once for more than the span was returned by the call that
\* ended the rotation in the CopyWheel, and earlier in the AllocWheel
C12_Witness ==
    \E k \in LiveKeys :
        /\ hist[k].n = 1 /\ ~hist[k].stopped /\ hist[k].time > Span
        /\ hist[k].cplaced # {} /\ hist[k].aplaced # {}
        /\ hist[k].cfired = <<Rotation(Coarsest)>>
        /\ Len(hist[k].afired) = 1

\* the durations either driver hands to start
AllTimes == Times(copy.resolutions) \cup Elements(test_times)

Min(a, b) == IF a <= b THEN a ELSE b

\* whole units of level i in time
Units(time, i) == time \div UnitMs(copy.resolutions[i])

\* the slot C13 names for time in level i, from the cursor of that level
ClaimedSlot(time, i) ==
    (copy.slot_indexes[i] + Min(Units(time, i) + 1, Capacity(i))) % Capacity(i)

\* let expected_slots = [6, 4, 2, 6, 6, 6] (verify_wheel_and_slot_position)
expected_slots == <<6, 4, 2, 6, 6, 6>>

\* the wheels in which level i holds test_keys[i] in slot expected_slots[i]
\* and nothing else
ExpectedWheels ==
    [i \in 1..Len(expected_slots) |->
        [j \in 0..(Capacity(i) - 1) |->
            IF j = expected_slots[i] THEN <<test_keys[i]>> ELSE <<>>]]

CounterStep(before, after) ==
    /\ after[1] = (before[1] + 1) % Capacity(1)
    /\ \A i \in 2..Len(before) :
           after[i] = IF after[i - 1] # before[i - 1] /\ after[i - 1] = 0
                      THEN (before[i] + 1) % Capacity(i)
                      ELSE before[i]

\* the digit of level i in the mixed-radix representation of n calls
Digit(n, i) == (n \div TicksPer(i)) % Capacity(i)

\* C14: in both variants the cursors count the expire() calls in mixed radix:
\* a call steps them as CounterStep says, start and stop leave them alone, and
\* after n calls the cursor of level i is floor(n / (capacities of the finer
\* levels)) mod capacity_i, within 0..capacity_i - 1.
C14_CursorsCountCalls ==
    /\ [](\A i \in Levels :
             /\ copy.slot_indexes[i] = Digit(ticks, i)
             /\ alloc.slot_indexes[i] = Digit(ticks, i)
             /\ copy.slot_indexes[i] \in 0..(Capacity(i) - 1)
             /\ alloc.slot_indexes[i] \in 0..(Capacity(i) - 1))
    /\ [][IF ticks' = ticks + 1
          THEN /\ CounterStep(copy.slot_indexes, copy'.slot_indexes)
               /\ CounterStep(alloc.slot_indexes, alloc'.slot_indexes)
          ELSE /\ copy'.slot_indexes = copy.slot_indexes
               /\ alloc'.slot_indexes = alloc.slot_indexes]_vars

\* call 1000 of the test has wrapped the three finest cursors and advanced
\* the Sec cursor to 1
C14_Witness ==
    /\ test = "start_and_expire"
    /\ ticks = 1000
    /\ copy.slot_indexes = <<0, 0, 0, 1, 0, 0>>
    /\ alloc.slot_indexes = <<0, 0, 0, 1, 0, 0>>

\* the calls of the trail in which the cursor of level i of a wheel moved
Moves(wheel, i) ==
    {j \in 1..(Len(trail) - 1) : trail[j + 1][wheel][i] # trail[j][wheel][i]}

\* C15: when expire() has been called capacity-of-the-finest-level times from
\* any state, the finest cursor is back where it was before those calls, and
\* the cursor of the next level, if there is one, was advanced in exactly one
\* of them, by one; in both variants.
C15_FinestRotation ==
    Len(trail) = Capacity(1) + 1 =>
        \A wheel \in {"copy", "alloc"} :
            /\ trail[Len(trail)][wheel][1] = trail[1][wheel][1]
            /\ Cardinality(Moves(wheel, 1)) = Capacity(1)
            /\ Len(copy.resolutions) >= 2 =>
                   /\ Cardinality(Moves(wheel, 2)) = 1
                   /\ trail[Len(trail)][wheel][2] =
                          (trail[1][wheel][2] + 1) % Capacity(2)

\* ten calls from cursor 5 of the six-level wheel: the finest cursor is at 5
\* again and the next one went from 0 to 1
C15_Witness ==
    /\ Len(copy.resolutions) >= 2
    /\ Len(trail) = Capacity(1) + 1
    /\ trail[1] = [copy |-> <<5, 0>>, alloc |-> <<5, 0>>]
    /\ copy.slot_indexes[1] = 5 /\ copy.slot_indexes[2] = 1
    /\ alloc.slot_indexes[1] = 5 /\ alloc.slot_indexes[2] = 1

\* the units AllocWheel::insert_* computes for level i: from as_secs() from
\* seconds up, from subsec_nanos() below
AllocUnits(time, i) ==
    IF UnitMs(copy.resolutions[i]) >= 1000
    THEN as_secs(time) \div (UnitMs(copy.resolutions[i]) \div 1000)
    ELSE subsec_ms(time) \div UnitMs(copy.resolutions[i])

\* C16 as claimed: the slot a start has just put an entry in is never the
\* slot under the cursor of its level, in either variant.
C16_SlotAheadOfCursor ==
    \A k \in DOMAIN hist :
        (hist[k].n >= 1 /\ Age(k) = 0) =>
            /\ \A p \in hist[k].cplaced : p[2] # copy.slot_indexes[p[1]]
            /\ \A p \in hist[k].aplaced : p[2] # alloc.slot_indexes[p[1]]

\* C16 amended: the slot is the one under the cursor exactly when the units
\* computed for the level, plus one, reach the capacity of the level; in all
\* other placements it is a different slot.
C16_SlotAheadUnlessFullRotation ==
    \A k \in DOMAIN hist :
        (hist[k].n >= 1 /\ Age(k) = 0) =>
            /\ \A p \in hist[k].cplaced :
                   (p[2] = copy.slot_indexes[p[1]]) <=>
                       (Units(hist[k].time, p[1]) + 1 >= Capacity(p[1]))
            /\ \A p \in hist[k].aplaced :
                   (p[2] = alloc.slot_indexes[p[1]]) <=>
                       (AllocUnits(hist[k].time, p[1]) + 1 >= Capacity(p[1]))

\* a start after some calls of expire() has put the key in the slot under
\* the cursor, in both variants
C16_Witness ==
    \E k \in LiveKeys :
        /\ hist[k].n = 1 /\ Age(k) = 0 /\ ticks >= 1
        /\ \E i \in Levels :
              /\ copy.slot_indexes[i] >= 1
              /\ hist[k].cplaced = {<<i, copy.slot_indexes[i]>>}
              /\ hist[k].aplaced = {<<i, alloc.slot_indexes[i]>>}

\* key has been started and since then neither stopped nor returned
Armed(key, fired) == hist[key].n >= 1 /\ ~hist[key].stopped /\ fired = <<>>

\* C17: in both variants the registry holds exactly the keys that have been
\* started and since then neither stopped nor returned by expire(); a call of
\* expire() takes exactly the keys it returns out of the registry, and they
\* were all in it.
C17_RegistryIsArmedKeys ==
    /\ [](\A k \in DOMAIN hist :
             /\ k \in copy.keys <=> Armed(k, hist[k].cfired)
             /\ k \in alloc_registered <=> Armed(k, hist[k].afired))
    /\ [](copy.keys \subseteq DOMAIN hist /\ alloc_registered \subseteq DOMAIN hist)
    /\ [][ticks' = ticks + 1 =>
             /\ Elements(expired'.copy) \subseteq copy.keys
             /\ copy'.keys = copy.keys \ Elements(expired'.copy)
             /\ Elements(expired'.alloc) \subseteq alloc_registered
             /\ alloc'.keys =
                   {r \in alloc.keys : r.key \notin Elements(expired'.alloc)}]_vars

\* expire() has just returned one key and taken it out of both registries
\* while another key stays registered
C17_Witness ==
    \E k1, k2 \in Keys :
        /\ k1 \in copy.keys /\ k1 \in alloc_registered
        /\ Armed(k1, hist[k1].cfired) /\ Armed(k1, hist[k1].afired)
        /\ expired = [copy |-> <<k2>>, alloc |-> <<k2>>]
        /\ k2 \notin copy.keys /\ k2 \notin alloc_registered

\* advances of a cursor at cur, of a level of c slots, until it reaches slot s
\* again: 1..c
StepsTo(cur, s, c) == ((s - cur - 1 + c) % c) + 1

\* the expire() call, counted from construction, that drains the slot
\* p = <<level, slot>> for the first time after call number at
DueTick(at, p) ==
    ((at \div TicksPer(p[1]))
        + StepsTo((at \div TicksPer(p[1])) % Capacity(p[1]), p[2], Capacity(p[1])))
    * TicksPer(p[1])

\* key was started, stopped, and started again, and neither stopped nor
\* returned between the two starts or stopped since: its second start is the
\* last call made with it
StartStopStart(key) ==
    /\ hist[key].n = 2
    /\ ~hist[key].crearm
    /\ ~hist[key].stopped
    /\ hist[key].creturned = Len(hist[key].cfired)

\* C18 as claimed: in the CopyWheel, after start(k, d1); stop(k); start(k, d2)
\* the key is returned only by the call that drains the slot of the second
\* start, and by no call if the second start placed no entry.
C18_CancelledCopyDiscarded ==
    \A k \in DOMAIN hist :
        StartStopStart(k) =>
            /\ hist[k].cplaced = {} => hist[k].cfired = <<>>
            /\ \A p \in hist[k].cplaced :
                   \A j \in 1..Len(hist[k].cfired) :
                       hist[k].at + hist[k].cfired[j] = DueTick(hist[k].at, p)

\* the step advances the cursor of wheel "copy" or "alloc" into the slot p
Reaches(before, after, p) ==
    /\ after.slot_indexes[p[1]] = p[2]
    /\ before.slot_indexes[p[1]] # p[2]

\* C19: in the AllocWheel a start of a key that is in the registry leaves the
\* registry as it is and appends an entry that does not upgrade; from then on
\* the key is returned by the call that reaches the slot in which the start
\* that registered it put its entry, once, and by no call if that start put
\* it in no slot, wherever the later starts put theirs.
C19_AllocRearmInert ==
    [][/\ starts' = starts + 1 =>
            \A k \in DOMAIN hist :
                (hist'[k].n # hist[k].n /\ k \in alloc_registered) =>
                    /\ alloc'.keys = alloc.keys
                    /\ \A p \in hist'[k].aplaced :
                           LET entries == alloc'.wheels[p[1]][p[2]] IN
                           /\ entries = Append(alloc.wheels[p[1]][p[2]],
                                               [key |-> k, rc |-> starts'])
                           /\ ~upgrade(alloc'.keys, entries[Len(entries)])
       /\ ticks' = ticks + 1 =>
            \A k \in DOMAIN hist :
                Len(hist[k].aarms) >= 2 =>
                    Count(expired'.alloc, k) =
                        IF \E p \in hist[k].aarms[1] : Reaches(alloc, alloc', p)
                        THEN 1 ELSE 0]_vars

\* a key started while registered has been returned, once, by another call
\* than the one that drained the slot of that later start
C19_Witness ==
    \E k \in Keys :
        /\ hist[k].n = 2 /\ hist[k].arearm /\ ~hist[k].stopped
        /\ hist[k].areturned = 1 /\ Len(hist[k].afired) = 1
        /\ hist[k].aplaced # {}
        /\ \A p \in hist[k].aplaced :
               hist[k].at + hist[k].afired[1] # DueTick(hist[k].at, p)

\* C20 as claimed: in the CopyWheel a start of a key that is in the registry
\* leaves the registry as it is; when that start and the one before it have
\* each put an entry in a slot, the key is returned by the call that first
\* reaches one of those slots, once, and by no other call.
C20_CopyRearmFirstWins ==
    [][/\ starts' = starts + 1 =>
            \A k \in DOMAIN hist :
                (hist'[k].n # hist[k].n /\ k \in copy.keys) =>
                    copy'.keys = copy.keys
       /\ ticks' = ticks + 1 =>
            \A k \in DOMAIN hist :
                (/\ Len(hist[k].carms) >= 2
                 /\ \A i \in 1..Len(hist[k].carms) : hist[k].carms[i] # {}) =>
                    Count(expired'.copy, k) =
                        IF \E i \in 1..Len(hist[k].carms) :
                              \E p \in hist[k].carms[i] : Reaches(copy, copy', p)
                        THEN 1 ELSE 0]_vars

----------------------------------------------------------------------------
(* C21..C24: placement, occupancy and ownership *)

\* the wheel was constructed from the six resolutions
SixLevels == copy.resolutions = test_resolutions

\* key was returned by a call more than u and at most u + 1 ticks of the
\* level of p after its start, u the whole units of that level in the duration
WithinOneTick(fired, age, p, u) ==
    u + 1 <= Capacity(p[1]) =>
        /\ \A j \in 1..Len(fired) :
               /\ fired[j] >= u * TicksPer(p[1]) + 1
               /\ fired[j] <= (u + 1) * TicksPer(p[1])
        /\ age >= (u + 1) * TicksPer(p[1]) => fired # <<>>

\* C21 as claimed, for starts of keys that were not registered and have not
\* been stopped since: on the six-level wheel a key placed at level L with u
\* whole units of L in its duration, u + 1 <= capacity, is returned by a
\* call number u * R + 1 .. (u + 1) * R after the start, R the expire() calls
\* per tick of L, in both variants.
C21_FiresWithinOneTick ==
    SixLevels =>
        \A k \in DOMAIN hist :
            (hist[k].n >= 1 /\ ~hist[k].stopped) =>
                /\ ~hist[k].crearm =>
                       \A p \in hist[k].cplaced :
                           WithinOneTick(hist[k].cfired, Age(k), p,
                                         Units(hist[k].time, p[1]))
                /\ ~hist[k].arearm =>
                       \A p \in hist[k].aplaced :
                           WithinOneTick(hist[k].afired, Age(k), p,
                                         Units(hist[k].time, p[1]))

\* the entries in the slots of a wheel, as triples <<level, slot, position>>
EntrySet(wheels) ==
    UNION {UNION {{<<i, j, e>> : e \in 1..Len(wheels[i][j])} : j \in DOMAIN wheels[i]} :
           i \in DOMAIN wheels}

\* key has been started and the slot its last start put an entry in has not
\* been drained since
Undrained(key) ==
    /\ hist[key].n >= 1
    /\ \E p \in hist[key].cplaced : ticks < DueTick(hist[key].at, p)

\* C22 as claimed, of the runs of the driver that never starts a key that is
\* in the registry: in the CopyWheel no two slot entries hold the same key,
\* and the slots hold no more entries than there are keys started and not yet
\* drained.
C22_OneSlotPerKey ==
    \A es \in {EntrySet(copy.wheels)} :
        /\ Cardinality({copy.wheels[t[1]][t[2]][t[3]] : t \in es}) = Cardinality(es)
        /\ Cardinality(es) <= Cardinality({k \in DOMAIN hist : Undrained(k)})

\* the step is a start of a key that is in the registry of the CopyWheel or
\* of which a slot still holds a copy
StartsHeldKey ==
    /\ starts' = starts + 1
    /\ \E k \in DOMAIN hist :
           /\ hist'[k].n # hist[k].n
           /\ \/ k \in copy.keys
              \/ \E t \in EntrySet(copy.wheels) :
                     copy.wheels[t[1]][t[2]][t[3]] = k

\* C22 amended: the same in the runs that never start a key that is in the
\* registry or still has a copy in a slot: it holds of the new wheel, and
\* every call other than such a start keeps it.
C22_OneSlotPerKeyUnlessHeld ==
    /\ C22_OneSlotPerKey
    /\ [][(C22_OneSlotPerKey /\ ~StartsHeldKey) => C22_OneSlotPerKey']_vars

\* two keys started for the same duration share a slot, with one entry each
C22_Witness ==
    \E p \in hist["a"].cplaced :
        /\ hist["a"].n = 1 /\ hist["b"].n = 1
        /\ copy.wheels[p[1]][p[2]] = <<"a", "b">>
        /\ Cardinality(EntrySet(copy.wheels)) = 2
        /\ Undrained("a") /\ Undrained("b")

\* the slots of a wheel after a call of expire() that empties the slot under
\* the new cursor of every level whose cursor it moved, and no other
Emptied(before, after) ==
    [i \in DOMAIN before.wheels |->
        IF after.slot_indexes[i] # before.slot_indexes[i]
        THEN [before.wheels[i] EXCEPT ![after.slot_indexes[i]] = <<>>]
        ELSE before.wheels[i]]

\* at most one slot differs between the two states of a wheel, and in it the
\* entries it held are followed by one more
OneAppended(before, after) ==
    /\ Cardinality(Changed(before, after)) <= 1
    /\ \A p \in Changed(before, after) :
           /\ Len(after.wheels[p[1]][p[2]]) = Len(before.wheels[p[1]][p[2]]) + 1
           /\ SubSeq(after.wheels[p[1]][p[2]], 1, Len(before.wheels[p[1]][p[2]]))
                  = before.wheels[p[1]][p[2]]

\* C23: in both variants there is no migration: a call of expire() empties
\* exactly the slots under the new cursors of the levels it advanced and
\* leaves every other slot of every level as it was; start leaves every entry
\* where it is and appends at most one, to one slot; stop changes no slot.
\* So an entry stays in its slot until the call that moves the cursor of its
\* level onto it.
C23_NoMigration ==
    [][IF ticks' = ticks + 1
       THEN /\ copy'.wheels = Emptied(copy, copy')
            /\ alloc'.wheels = Emptied(alloc, alloc')
       ELSE IF starts' = starts + 1
       THEN /\ OneAppended(copy, copy')
            /\ OneAppended(alloc, alloc')
       ELSE /\ copy'.wheels = copy.wheels
            /\ alloc'.wheels = alloc.wheels]_vars

\* call 1000 of the test has emptied slot 0 of the three finest levels and
\* slot 1 of the Sec level, and the entries of d, e and f sit where start put
\* them: d in slot 6 of the Sec level, which the cursor has not reached
C23_Witness ==
    /\ test = "start_and_expire"
    /\ ticks = 1000
    /\ copy.slot_indexes = <<0, 0, 0, 1, 0, 0>>
    /\ copy.wheels[4][6] = <<"d">> /\ copy.wheels[5][6] = <<"e">>
    /\ copy.wheels[6][6] = <<"f">>
    /\ WeakKeys(alloc.wheels[4][6]) = <<"d">>
    /\ Cardinality(EntrySet(copy.wheels)) = 3
    /\ Cardinality(EntrySet(alloc.wheels)) = 3

\* the observers in the slots of the AllocWheel
Observers == {alloc.wheels[t[1]][t[2]][t[3]] : t \in EntrySet(alloc.wheels)}

\* C24: in the AllocWheel, whatever was called before, the registry holds
\* one Rc, of an allocation of its own, for each of its keys, every observer
\* in a slot that upgrades names
\* the allocation of the registry entry of its key (so keys.remove takes out
\* the only other owner, and try_unwrap succeeds), no two entries in the
\* slots name the same allocation, and no call of expire() has panicked.
C24_RegistrySoleOwner ==
    /\ ~panicked
    /\ \A r1, r2 \in alloc.keys : (r1.key = r2.key \/ r1.rc = r2.rc) => r1 = r2
    /\ \A es \in {EntrySet(alloc.wheels)} :
           /\ Cardinality({alloc.wheels[t[1]][t[2]][t[3]].rc : t \in es})
                  = Cardinality(es)
           /\ \A t \in es :
                  LET weak == alloc.wheels[t[1]][t[2]][t[3]] IN
                  upgrade(alloc.keys, weak) =>
                      [key |-> weak.key, rc |-> weak.rc] \in alloc.keys

\* a key was started three times, the last time while it was registered, and
\* was then returned by expire(); two observers are still in the slots, the
\* registry is empty and nothing has panicked
C24_Witness ==
    \E k \in LiveKeys :
        /\ hist[k].n = 3 /\ hist[k].arearm /\ hist[k].areturned = 1
        /\ hist[k].afired # <<>>
        /\ Cardinality(Observers) = 2
        /\ alloc.keys = {}
        /\ ~panicked

====
